---- MODULE Spec2Model ----
(***************************************************************************)
(* A model of node-tile38:                                                 *)
(*   - Tile38Query (src/src/core/query.ts): the fluent query builder and   *)
(*     its rendering into a command string;                                *)
(*   - LiveGeofence (src/unnamed/part_000): the socket of a live geofence, *)
(*     the reply parser feeding the subscriber's callback, close();        *)
(*   - CoreClient (src/src/core/client.ts): the initialization of the      *)
(*     client and execute(), which sends a command and settles a promise.  *)
(***************************************************************************)
EXTENDS Integers, Sequences, FiniteSets, TLC

VARIABLES
    \* ---- Tile38Query ----
    type,        \* Tile38Query.type
    key,         \* Tile38Query.key
    options,     \* Tile38Query.options: option key -> stored token array
    calls,       \* history: clause kind -> the argument lists of its setter calls
    nCalls,      \* history: the number of setter calls made
    renders,     \* history: the number of renders since the last setter call
    lastOp,      \* the method of Tile38Query called last
    ret,         \* what that call returned
    thrown,      \* what that call threw ("none": it returned normally)
    \* ---- LiveGeofence ----
    password,        \* config.password ("": none configured)
    socket,          \* LiveGeofence.socket: 0 (undefined) or the socket open() made last
    onCloseCallback, \* LiveGeofence.onCloseCallback
    nSockets,        \* the number of sockets open() has made
    sockState,       \* per socket: "none", "connecting", "connected", "destroyed"
                     \*   (destroy() done, 'close' not yet emitted), "closed"
    sockProp,        \* per socket: the property onCloseCallback of the socket object
    written,         \* per socket: the strings written to it
    wire,            \* per socket: the bytes the server has sent and the socket has
                     \*   not yet delivered
    parserBuf,       \* per socket: the bytes its parser holds, not yet consumed
    executing,       \* the socket whose parser.execute is running, or 0
    events,          \* history, per socket: the invocations of the event callback
    closeNotified,   \* history: the invocations of the registered closure callback
    observerAtClose, \* history, per socket: the closure callback that was registered
                     \*   when its 'close' event was emitted ("none" before)
    closedAt,        \* history, per socket: the number of events delivered when the
                     \*   first close() that destroyed it returned, or -1
    fatalErrors,     \* history, per socket: the fatal errors its parser reported
    nFrames,         \* history: the number of frames the server has sent
    arrived,         \* history, per socket: the bytes its 'data' events delivered
    consumed,        \* history, per socket: the bytes its parser consumed as frames
    closes,          \* history: close() was called "never", "once", or "again"
                     \*   after that
    lastRegistered,  \* history: the callback passed to the last onClose() call
    split,           \* history: a 'data' event has ended in the middle of a frame
    \* ---- CoreClient ----
    initialized,     \* CoreClient.initialized
    connected,       \* the transport has emitted 'connect'
    outbox,          \* the calls of client.sendCommand whose reply has not arrived,
                     \*   oldest first
    phase,           \* per execute call: "new" (not made yet), "debouncing" (its
                     \*   timer is pending), "sent", "replied"
    command,         \* per execute call: the command and its arguments
    promise,         \* per execute call: the promise it returned
    retries,         \* history, per call: the timers that found the client not
                     \*   initialized
    forwards,        \* history, per call: the times it was handed to sendCommand
    settleCalls,     \* history, per call: the calls of resolve and reject
    debounced,       \* history, per call: it was made before the client was
                     \*   initialized
    replies,         \* history, per call: the (error, rawResult) its callback got
    uncaught         \* history: the calls whose sendCommand callback threw

queryVars == <<type, key, options, calls, nCalls, renders, lastOp, ret, thrown>>

fenceVars ==
    <<password, socket, onCloseCallback, nSockets, sockState, sockProp, written, wire,
      parserBuf, executing, events, closeNotified, observerAtClose, closedAt,
      fatalErrors, nFrames, arrived, consumed, closes, lastRegistered,
      split>>

clientVars ==
    <<initialized, connected, outbox, phase, command, promise, retries, forwards,
      settleCalls, debounced, replies, uncaught>>

vars == <<queryVars, fenceVars, clientVars>>

-----------------------------------------------------------------------------
(* Bounds *)

\* setter calls made on one query
MaxCalls == 2
\* renders of a query between two setter calls
MaxRenders == 2
\* open() calls on one LiveGeofence plus reply frames the server sends
MaxLoad == 3
\* execute() calls made on one CoreClient
MaxExec == 2
\* debounce timers of one execute() call that find the client not initialized
MaxRetries == 2

-----------------------------------------------------------------------------
(* Values.  A token of a stored clause is a JavaScript number or string. *)

Num(n) == [num |-> n]
Str(s) == [str |-> s]

\* String(token), as Array.prototype.join applies it to each element
String(tok) == IF "num" \in DOMAIN tok THEN ToString(tok.num) ELSE tok.str

\* Array.prototype.join
RECURSIVE join(_, _)
join(arr, sep) ==
    IF arr = <<>> THEN ""
    ELSE IF Len(arr) = 1 THEN String(arr[1])
    ELSE String(arr[1]) \o sep \o join(Tail(arr), sep)

\* an optional parameter: <<>> is undefined, <<v>> is the value v
Undefined == <<>>
Some(v) == <<v>>
\* JavaScript truthiness of an optional number
Truthy(opt) == opt # Undefined /\ opt[1] # 0

\* JSON.stringify of a GeoJSON point
JSONstringify(geojson) ==
    "{\"type\":\"" \o geojson.type \o "\",\"coordinates\":["
        \o ToString(geojson.coordinates[1]) \o ","
        \o ToString(geojson.coordinates[2]) \o "]}"

\* this.options[k] = v
Put(o, k, v) == [x \in (DOMAIN o) \cup {k} |-> IF x = k THEN v ELSE o[x]]
\* this.options[k] || []
GetOrEmpty(o, k) == IF k \in DOMAIN o THEN o[k] ELSE <<>>

\* the options of a query constructed without options: {}
EmptyOptions == [x \in {} |-> <<>>]

-----------------------------------------------------------------------------
(* The setters of Tile38Query, as functions of the options object *)

\* a variant of withCursor that keeps the tokens stored before, as the setters of
\* the multi-valued clauses do
withCursorAccumulating(o, start) ==
    Put(o, "cursor", <<Str("CURSOR"), Num(start)>> \o GetOrEmpty(o, "cursor"))

withCursor(o, start) == Put(o, "cursor", <<Str("CURSOR"), Num(start)>>)

withLimit(o, count) == Put(o, "limit", <<Str("LIMIT"), Num(count)>>)

withSparse(o, spread) == Put(o, "sparse", <<Str("SPARSE"), Num(spread)>>)

withMatch(o, value) ==
    Put(o, "matches", <<Str("MATCH"), value>> \o GetOrEmpty(o, "matches"))

order(o, direction) == Put(o, "order", <<Str(direction)>>)

withDistance(o) == Put(o, "distance", <<Str("DISTANCE")>>)

withFence(o) == Put(o, "fence", <<Str("FENCE")>>)

\* a variant of withWhere that puts the tokens stored before in front of the new ones
withWhereOldestFirst(o, field, criteria) ==
    LET previous == GetOrEmpty(o, "where")
    IN  Put(o, "where", previous \o (<<Str("WHERE"), Str(field)>> \o criteria))

withWhere(o, field, criteria) ==
    LET previous == GetOrEmpty(o, "where")
    IN  Put(o, "where", (<<Str("WHERE"), Str(field)>> \o criteria) \o previous)

\* a variant of withWhereIn whose count token counts the field as well
withWhereInCountingField(o, field, values) ==
    LET previous == GetOrEmpty(o, "whereIn")
    IN  Put(o, "whereIn",
            (<<Str("WHEREIN"), Str(field), Num(Len(values) + 1)>> \o values)
                \o previous)

withWhereIn(o, field, values) ==
    LET previous == GetOrEmpty(o, "whereIn")
    IN  Put(o, "whereIn",
            (<<Str("WHEREIN"), Str(field), Num(Len(values))>> \o values) \o previous)

withWhereEval(o, script, args) ==
    LET previous == GetOrEmpty(o, "whereEval")
    IN  Put(o, "whereEval",
            (<<Str("WHEREEVAL"), Str("\"" \o script \o "\""), Num(Len(args))>> \o args)
                \o previous)

withWhereEvalSha(o, sha, args) ==
    LET previous == GetOrEmpty(o, "whereEvalSha")
    IN  Put(o, "whereEvalSha",
            (<<Str("WHEREEVALSHA"), Str(sha), Num(Len(args))>> \o args) \o previous)

withClip(o) == Put(o, "clip", <<Str("CLIP")>>)

withNoFields(o) == Put(o, "noFields", <<Str("NOFIELDS")>>)

withDetect(o, values) == Put(o, "detect", <<Str("DETECT"), Str(join(values, ","))>>)

withCommands(o, values) ==
    Put(o, "commands", <<Str("COMMANDS"), Str(join(values, ","))>>)

\* a variant of withOutput that stores a positive precision with every type
withOutputAnyType(o, otype, precision) ==
    IF Truthy(precision) /\ precision[1] > 0
    THEN Put(o, "output", <<Str(otype), Num(precision[1])>>)
    ELSE Put(o, "output", <<Str(otype)>>)

withOutput(o, otype, precision) ==
    IF otype = "HASHES" /\ Truthy(precision) /\ precision[1] > 0
    THEN Put(o, "output", <<Str(otype), Num(precision[1])>>)
    ELSE Put(o, "output", <<Str(otype)>>)

withGetObject(o, k, id) == Put(o, "getObject", <<Str("GET"), Str(k), Str(id)>>)

withBounds(o, minlat, minlon, maxlat, maxlon) ==
    Put(o, "bounds",
        <<Str("BOUNDS"), Num(minlat), Num(minlon), Num(maxlat), Num(maxlon)>>)

withObject(o, geojson) ==
    Put(o, "geojson", <<Str("OBJECT"), Str(JSONstringify(geojson))>>)

withTile(o, x, y, z) == Put(o, "tile", <<Str("TILE"), Num(x), Num(y), Num(z)>>)

withQuadKey(o, quadkey) == Put(o, "quadKey", <<Str("QUADKEY"), quadkey>>)

withHash(o, geohash) == Put(o, "hash", <<Str("HASH"), Str(geohash)>>)

\* a variant of withCircle that removes a stored point, the other way of giving
\* the centre of a search
withCircleClearingPoint(o, lat, lon, radius) ==
    LET p == Put(o, "circle", <<Str("CIRCLE"), Num(lat), Num(lon), Num(radius)>>)
    IN  [x \in (DOMAIN p) \ {"point"} |-> p[x]]

withCircle(o, lat, lon, radius) ==
    Put(o, "circle", <<Str("CIRCLE"), Num(lat), Num(lon), Num(radius)>>)

withPoint(o, lat, lon, meters) ==
    Put(o, "point",
        <<Str("POINT"), Num(lat), Num(lon)>>
            \o (IF Truthy(meters) THEN <<Num(meters[1])>> ELSE <<>>))

withRoam(o, k, pattern, meters) ==
    Put(o, "roam", <<Str("ROAM"), Str(k), Str(pattern), Num(meters)>>)

-----------------------------------------------------------------------------
(* Rendering *)

\* a variant of commandOrder with limit before cursor
commandOrderLimitFirst ==
    << "limit", "cursor", "sparse", "matches", "order", "distance", "where",
       "whereIn", "whereEval", "whereEvalSha", "clip", "nofields", "fence", "detect",
       "commands", "output", "getObject", "bounds", "geojson", "tile", "quadKey", "hash",
       "point", "circle", "roam" >>

commandOrder ==
    << "cursor", "limit", "sparse", "matches", "order", "distance", "where",
       "whereIn", "whereEval", "whereEvalSha", "clip", "nofields", "fence", "detect",
       "commands", "output", "getObject", "bounds", "geojson", "tile", "quadKey", "hash",
       "point", "circle", "roam" >>

\* .map(command => this.options[command]).filter(command => command): the stored
\* arrays of the keys of corder that the options object has, in corder's order
RECURSIVE StoredInOrder(_, _)
StoredInOrder(o, corder) ==
    IF corder = <<>> THEN <<>>
    ELSE (IF Head(corder) \in DOMAIN o THEN <<o[Head(corder)]>> ELSE <<>>)
            \o StoredInOrder(o, Tail(corder))

\* .reduce((prev, current) => { prev.push(...current); return prev }, init)
RECURSIVE reduce(_, _)
reduce(arrays, init) ==
    IF arrays = <<>> THEN init
    ELSE reduce(Tail(arrays), init \o Head(arrays))

compileCommandArray(o, k) == reduce(StoredInOrder(o, commandOrder), <<Str(k)>>)

compileCommand(t, o, k) == t \o " " \o join(compileCommandArray(o, k), " ")

toString(t, o, k) == compileCommand(t, o, k)

-----------------------------------------------------------------------------
(* LiveGeofence: values *)

SockIds == 1..MaxLoad

Passwords == {"", "secret"}

\* the closure callbacks a caller registers with onClose
CloseCallbacks == {"cb1", "cb2"}

\* the bytes of the wire, in two kinds of pieces: the head of a frame (its type
\* byte and its payload) and the line terminator that ends it
FrameHead(typeByte, payload) == [type |-> typeByte, payload |-> payload]
CRLF == [type |-> "\r\n", payload |-> ""]

\* the frames of the reply protocol the server sends.  "!" is no type byte of
\* the protocol.
ReplyFrames ==
    { <<FrameHead("+", "OK"), CRLF>>,
      <<FrameHead("+", "hello"), CRLF>>,
      <<FrameHead("$", "{\"id\":1}"), CRLF>>,
      <<FrameHead("$", "{oops"), CRLF>>,
      <<FrameHead("$", "[7]"), CRLF>>,
      <<FrameHead("$", "[oops"), CRLF>>,
      <<FrameHead("-", "ERR invalid"), CRLF>>,
      <<FrameHead("!", "")>> }

TypeBytes == {"+", "$", "-"}

\* rawReply.charAt(0)
charAt0(str) ==
    CASE str = "{\"id\":1}" -> "{"
      [] str = "{oops" -> "{"
      [] str = "[7]" -> "["
      [] str = "[oops" -> "["
      [] str = "OK" -> "O"
      [] str = "hello" -> "h"
      [] OTHER -> "E"

\* the strings JSON.parse accepts; it throws on the others
ValidJSON == {"{\"id\":1}", "[7]"}

\* JSON.parse of a string it accepts: the decoded object
JSONparse(str) ==
    IF str = "[7]"
    THEN [t |-> "array", v |-> <<7>>]
    ELSE [t |-> "object", v |-> [id |-> 1]]

JsString(str) == [t |-> "string", v |-> str]
JsUndefined == [t |-> "undefined"]

\* an invocation callback(result, error)
Invocation(result, error) == [result |-> result, error |-> error]

\* the state the constructor leaves: no socket, an empty closure callback
Constructed ==
    /\ socket = 0
    /\ onCloseCallback = "noop"
    /\ nSockets = 0
    /\ sockState = [s \in SockIds |-> "none"]
    /\ sockProp = [s \in SockIds |-> "unset"]
    /\ written = [s \in SockIds |-> <<>>]
    /\ wire = [s \in SockIds |-> <<>>]
    /\ parserBuf = [s \in SockIds |-> <<>>]
    /\ executing = 0
    /\ events = [s \in SockIds |-> <<>>]
    /\ closeNotified = <<>>
    /\ observerAtClose = [s \in SockIds |-> "none"]
    /\ closedAt = [s \in SockIds |-> -1]
    /\ fatalErrors = [s \in SockIds |-> 0]
    /\ nFrames = 0
    /\ arrived = [s \in SockIds |-> <<>>]
    /\ consumed = [s \in SockIds |-> <<>>]
    /\ closes = "never"
    /\ lastRegistered = "noop"
    /\ split = FALSE

-----------------------------------------------------------------------------
(* CoreClient: values *)

ExecIds == 1..MaxExec

\* the commands a caller executes: execute(command, ...args)
Commands ==
    { [command |-> "PING", args |-> <<>>],
      [command |-> "GET", args |-> <<Str("fleet"), Str("truck1")>>] }

NoCommand == [command |-> "", args |-> <<>>]

\* the call of sendCommand("OUTPUT", ["json"]) of the constructor
OutputJson == [call |-> 0, command |-> "OUTPUT", args |-> <<Str("json")>>]

\* what the transport hands to the callback of sendCommand for a command: no error
\* and the text of the server's reply, or an error and no text
Arrival(error, rawResult) == [error |-> error, rawResult |-> rawResult]

NoArrival == Arrival("none", "none")

OkText(c) ==
    IF c.command = "PING"
    THEN "{\"ok\":true,\"ping\":\"pong\",\"elapsed\":\"1ms\"}"
    ELSE "{\"ok\":true,\"object\":\"truck1\",\"elapsed\":\"2ms\"}"

ErrText(c) ==
    IF c.command = "PING"
    THEN "{\"ok\":false,\"err\":\"invalid number of arguments\",\"elapsed\":\"1ms\"}"
    ELSE "{\"ok\":false,\"err\":\"id not found\",\"elapsed\":\"2ms\"}"

FailText == "{\"ok\":false,\"elapsed\":\"0ms\"}"

Arrivals(c) ==
    { Arrival("null", OkText(c)),
      Arrival("null", ErrText(c)),
      Arrival("null", FailText),
      Arrival("ReplyError", "undefined") }

\* the texts JSON.parse accepts; it throws on undefined
ParsableResults ==
    UNION {{OkText(c), ErrText(c)} : c \in Commands} \cup {FailText}

\* JSON.parse(rawResult): the fields ok and err of the reply (err "" when the text
\* has none); `text` stands for the object as a whole
parseResult(rawResult) ==
    [ ok |-> rawResult \in {OkText(c) : c \in Commands},
      err |-> CASE rawResult = "{\"ok\":false,\"err\":\"invalid number of arguments\",\"elapsed\":\"1ms\"}"
                     -> "invalid number of arguments"
                [] rawResult = "{\"ok\":false,\"err\":\"id not found\",\"elapsed\":\"2ms\"}"
                     -> "id not found"
                [] OTHER -> "",
      text |-> rawResult ]

\* `${command} ${args.join(" ")}`.trim()
rawCommandOf(c) ==
    IF c.args = <<>> THEN c.command ELSE c.command \o " " \o join(c.args, " ")

\* a promise: pending, or settled with a value or a reason
Pending == [state |-> "pending", with |-> ""]
Resolved(text) == [state |-> "resolved", with |-> text]
Rejected(reason) == [state |-> "rejected", with |-> reason]

\* resolve(value) and reject(reason) on a promise: a settled promise stays as it is
resolve(p, text) == IF p.state = "pending" THEN Resolved(text) ELSE p
reject(p, reason) == IF p.state = "pending" THEN Rejected(reason) ELSE p

\* error.message of a rejection reason: the transport's error is an Error object
\* with a message, every other reason execute rejects with is a string, whose
\* property `message` is undefined
messageOf(reason) ==
    IF reason = "ReplyError" THEN "connection lost" ELSE "undefined"

\* getResultField(result, key) = result[key], for the keys "ok" and "err"
getResultField(text, field) ==
    IF field = "ok"
    THEN IF parseResult(text).ok THEN "true" ELSE "false"
    ELSE parseResult(text).err

\* executeForSingleField(command, key, ...args): the promise it returns, from the
\* promise p of execute(command, ...args)
executeForSingleField(p, verb, field) ==
    CASE p.state = "resolved" -> Resolved(getResultField(p.with, field))
      [] p.state = "rejected" ->
            Rejected("Command " \o verb \o " failed: " \o messageOf(p.with))
      [] OTHER -> Pending

\* executeForOK(command, ...args)
executeForOK(p, verb) == executeForSingleField(p, verb, "ok")

\* the state the constructor of CoreClient leaves
ClientConstructed ==
    /\ initialized = FALSE
    /\ connected = FALSE
    /\ outbox = <<>>
    /\ phase = [id \in ExecIds |-> "new"]
    /\ command = [id \in ExecIds |-> NoCommand]
    /\ promise = [id \in ExecIds |-> Pending]
    /\ retries = [id \in ExecIds |-> 0]
    /\ forwards = [id \in ExecIds |-> 0]
    /\ settleCalls = [id \in ExecIds |-> 0]
    /\ debounced = [id \in ExecIds |-> FALSE]
    /\ replies = [id \in ExecIds |-> NoArrival]
    /\ uncaught = {}

-----------------------------------------------------------------------------
(* The calls a client makes on a query: arguments drawn from small sets *)

QueryTypes == {"NEARBY"}
Keys == {"fleet"}

CursorArgs == {0, 1}
LimitArgs == {1, 2}
SparseArgs == {1, 8, 9}
MatchArgs == {Str("truck*"), Num(7)}
OrderArgs == {"ASC", "DESC"}
WhereArgs == {<<"a", <<Num(1), Num(2)>>>>, <<"b", <<Num(3), Num(4)>>>>}
WhereInArgs == {<<"speed", <<Num(30), Num(60)>>>>, <<"doors", <<Num(2)>>>>}
WhereEvalArgs == {<<"return 1", <<>>>>, <<"return ARGV[1]", <<Num(8)>>>>}
WhereEvalShaArgs == {<<"sha1", <<>>>>, <<"sha2", <<Num(8), Str("x")>>>>}
DetectArgs == {<<Str("inside")>>, <<Str("inside"), Str("outside")>>}
CommandsArgs == {<<Str("del")>>, <<Str("del"), Str("set")>>}
OutputArgs ==
    {<<"COUNT", Undefined>>, <<"COUNT", Some(6)>>, <<"IDS", Some(6)>>,
     <<"HASHES", Undefined>>, <<"HASHES", Some(0)>>, <<"HASHES", Some(6)>>,
     <<"HASHES", Some(-1)>>}
HashesArgs == {0, 7}
GetObjectArgs == {<<"fleet", "truck1">>, <<"zones", "z1">>}
BoundsArgs == {<<0, 0, 1, 1>>, <<-1, -2, 3, 4>>}
ObjectArgs ==
    {[type |-> "Point", coordinates |-> <<1, 2>>],
     [type |-> "Point", coordinates |-> <<-3, 4>>]}
TileArgs == {<<1, 2, 3>>, <<4, 5, 6>>}
QuadKeyArgs == {Str("0123"), Num(12)}
HashArgs == {"9q", "u0"}
CircleArgs == {<<0, 0, 10>>, <<1, 2, 30>>}
PointArgs == {<<0, 0, Undefined>>, <<33, -112, Some(6000)>>, <<0, 0, Some(0)>>}
RoamArgs == {<<"people", "*", 100>>, <<"cars", "t*", 5>>}

\* the clause kinds, in the order of the fixed clause order table
ClauseOrder ==
    << "cursor", "limit", "sparse", "match", "order", "distance", "where",
       "whereIn", "whereEval", "whereEvalSha", "clip", "nofields", "fence", "detect",
       "commands", "output", "getObject", "bounds", "geojson", "tile", "quadKey", "hash",
       "point", "circle", "roam" >>

ClauseKinds == {ClauseOrder[i] : i \in 1..Len(ClauseOrder)}

MultiValued == {"match", "where", "whereIn", "whereEval", "whereEvalSha"}
SingleValued == ClauseKinds \ MultiValued

\* the value a setter returns: the query itself
This == [kind |-> "this"]

-----------------------------------------------------------------------------
(* Tile38Query: the state after construction, and one action per method *)

QueryInit ==
    /\ type \in QueryTypes
    /\ key \in Keys
    /\ options = EmptyOptions
    /\ calls = [k \in ClauseKinds |-> <<>>]
    /\ nCalls = 0
    /\ renders = 0
    /\ lastOp = "constructor"
    /\ ret = This
    /\ thrown = "none"
    /\ password = ""
    /\ Constructed
    /\ ClientConstructed

\* a setter op of clause kind `kind`, called with `args`, leaves the options o2
\* and returns this
Setter(op, kind, args, o2) ==
    /\ nCalls < MaxCalls
    /\ options' = o2
    /\ calls' = [calls EXCEPT ![kind] = Append(@, args)]
    /\ nCalls' = nCalls + 1
    /\ renders' = 0
    /\ lastOp' = op
    /\ ret' = This
    /\ thrown' = "none"
    /\ UNCHANGED <<type, key>>
    /\ UNCHANGED <<fenceVars, clientVars>>

WithCursor ==
    \E start \in CursorArgs :
        Setter("withCursor", "cursor", <<start>>, withCursor(options, start))

WithLimit ==
    \E count \in LimitArgs :
        Setter("withLimit", "limit", <<count>>, withLimit(options, count))

WithSparse ==
    \E spread \in SparseArgs :
        Setter("withSparse", "sparse", <<spread>>, withSparse(options, spread))

WithMatch ==
    \E value \in MatchArgs :
        Setter("withMatch", "match", <<value>>, withMatch(options, value))

Order ==
    \E direction \in OrderArgs :
        Setter("order", "order", <<direction>>, order(options, direction))

WithOrderAscending ==
    Setter("withOrderAscending", "order", <<"ASC">>, order(options, "ASC"))

WithOrderDescending ==
    Setter("withOrderDescending", "order", <<"DESC">>, order(options, "DESC"))

WithDistance == Setter("withDistance", "distance", <<>>, withDistance(options))

WithFence == Setter("withFence", "fence", <<>>, withFence(options))

WithWhere ==
    \E a \in WhereArgs :
        Setter("withWhere", "where", a, withWhere(options, a[1], a[2]))

WithWhereIn ==
    \E a \in WhereInArgs :
        Setter("withWhereIn", "whereIn", a, withWhereIn(options, a[1], a[2]))

WithWhereEval ==
    \E a \in WhereEvalArgs :
        Setter("withWhereEval", "whereEval", a, withWhereEval(options, a[1], a[2]))

WithWhereEvalSha ==
    \E a \in WhereEvalShaArgs :
        Setter("withWhereEvalSha", "whereEvalSha", a,
               withWhereEvalSha(options, a[1], a[2]))

WithClip == Setter("withClip", "clip", <<>>, withClip(options))

WithNoFields == Setter("withNoFields", "nofields", <<>>, withNoFields(options))

WithDetect ==
    \E values \in DetectArgs :
        Setter("withDetect", "detect", <<values>>, withDetect(options, values))

WithCommands ==
    \E values \in CommandsArgs :
        Setter("withCommands", "commands", <<values>>, withCommands(options, values))

WithOutput ==
    \E a \in OutputArgs :
        Setter("withOutput", "output", a, withOutput(options, a[1], a[2]))

WithIds ==
    Setter("withIds", "output", <<"IDS", Undefined>>,
           withOutput(options, "IDS", Undefined))

WithCount ==
    Setter("withCount", "output", <<"COUNT", Undefined>>,
           withOutput(options, "COUNT", Undefined))

WithObjects ==
    Setter("withObjects", "output", <<"OBJECTS", Undefined>>,
           withOutput(options, "OBJECTS", Undefined))

WithPoints ==
    Setter("withPoints", "output", <<"POINTS", Undefined>>,
           withOutput(options, "POINTS", Undefined))

WithHashes ==
    \E precision \in HashesArgs :
        Setter("withHashes", "output", <<"HASHES", Some(precision)>>,
               withOutput(options, "HASHES", Some(precision)))

WithGetObject ==
    \E a \in GetObjectArgs :
        Setter("withGetObject", "getObject", a, withGetObject(options, a[1], a[2]))

WithBounds ==
    \E a \in BoundsArgs :
        Setter("withBounds", "bounds", a,
               withBounds(options, a[1], a[2], a[3], a[4]))

WithObject ==
    \E geojson \in ObjectArgs :
        Setter("withObject", "geojson", <<geojson>>, withObject(options, geojson))

WithTile ==
    \E a \in TileArgs :
        Setter("withTile", "tile", a, withTile(options, a[1], a[2], a[3]))

WithQuadKey ==
    \E quadkey \in QuadKeyArgs :
        Setter("withQuadKey", "quadKey", <<quadkey>>, withQuadKey(options, quadkey))

WithHash ==
    \E geohash \in HashArgs :
        Setter("withHash", "hash", <<geohash>>, withHash(options, geohash))

WithCircle ==
    \E a \in CircleArgs :
        Setter("withCircle", "circle", a, withCircle(options, a[1], a[2], a[3]))

WithPoint ==
    \E a \in PointArgs :
        Setter("withPoint", "point", a, withPoint(options, a[1], a[2], a[3]))

WithRoam ==
    \E a \in RoamArgs :
        Setter("withRoam", "roam", a, withRoam(options, a[1], a[2], a[3]))

\* a variant of compileCommandArray whose reduce starts from the array stored for
\* the key, when there is one, instead of a fresh array: it pushes the clauses
\* into that stored array
CompileCommandArrayInPlace ==
    /\ renders < MaxRenders
    /\ renders' = renders + 1
    /\ lastOp' = "compileCommandArray"
    /\ ret' = [kind |-> "array", val |-> compileCommandArray(options, key)]
    /\ thrown' = "none"
    /\ options' =
          IF "cursor" \in DOMAIN options
          THEN [options EXCEPT !["cursor"] = Tail(compileCommandArray(options, key))]
          ELSE options
    /\ UNCHANGED <<type, key, calls, nCalls>>
    /\ UNCHANGED <<fenceVars, clientVars>>

\* the three rendering methods read type, key and options and write nothing
CompileCommandArray ==
    /\ renders < MaxRenders
    /\ renders' = renders + 1
    /\ lastOp' = "compileCommandArray"
    /\ ret' = [kind |-> "array", val |-> compileCommandArray(options, key)]
    /\ thrown' = "none"
    /\ UNCHANGED <<type, key, options, calls, nCalls>>
    /\ UNCHANGED <<fenceVars, clientVars>>

CompileCommand ==
    /\ renders < MaxRenders
    /\ renders' = renders + 1
    /\ lastOp' = "compileCommand"
    /\ ret' = [kind |-> "string", val |-> compileCommand(type, options, key)]
    /\ thrown' = "none"
    /\ UNCHANGED <<type, key, options, calls, nCalls>>
    /\ UNCHANGED <<fenceVars, clientVars>>

ToStringCall ==
    /\ renders < MaxRenders
    /\ renders' = renders + 1
    /\ lastOp' = "toString"
    /\ ret' = [kind |-> "string", val |-> toString(type, options, key)]
    /\ thrown' = "none"
    /\ UNCHANGED <<type, key, options, calls, nCalls>>
    /\ UNCHANGED <<fenceVars, clientVars>>

QueryNext ==
    \/ WithCursor \/ WithLimit \/ WithSparse \/ WithMatch
    \/ Order \/ WithOrderAscending \/ WithOrderDescending
    \/ WithDistance \/ WithFence
    \/ WithWhere \/ WithWhereIn \/ WithWhereEval \/ WithWhereEvalSha
    \/ WithClip \/ WithNoFields \/ WithDetect \/ WithCommands
    \/ WithOutput \/ WithIds \/ WithCount \/ WithObjects \/ WithPoints \/ WithHashes
    \/ WithGetObject \/ WithBounds \/ WithObject \/ WithTile \/ WithQuadKey
    \/ WithHash \/ WithCircle \/ WithPoint \/ WithRoam
    \/ CompileCommandArray \/ CompileCommand \/ ToStringCall

SpecQuery == QueryInit /\ [][QueryNext]_vars

-----------------------------------------------------------------------------
(* LiveGeofence: open(), the socket's events, the reply parser, onClose(), close() *)

\* what the subscriber's callback does before it returns: nothing more, or
\* it calls close() on the LiveGeofence
Reactions == {"return", "close"}

\* encodeQueryToRedisCommand(query): the rendered command of the query
encodeQueryToRedisCommand(t, o, k) == compileCommand(t, o, k)

\* a variant of socket.destroy() that acts on a socket already destroyed or closed
destroyAlways(st, s) == [st EXCEPT ![s] = "destroyed"]

\* socket.destroy() on socket s: the socket states it leaves
destroy(st, s) ==
    IF st[s] \in {"connecting", "connected"} THEN [st EXCEPT ![s] = "destroyed"] ELSE st

\* close(): if (this.socket) this.socket.destroy(): the socket states it leaves
close(st) == IF socket # 0 THEN destroy(st, socket) ELSE st

\* one more close() call in the history of close() calls
Counted(c) == IF c = "never" THEN "once" ELSE "again"

\* callback(result, error) on the connection of socket s, the socket states being
\* st when it is called; the callback reacts as `react` says
Invoke(s, invocation, st, react) ==
    /\ events' = [events EXCEPT ![s] = Append(@, invocation)]
    /\ sockState' = IF react = "close" THEN close(st) ELSE st
    /\ closedAt' =
          IF react = "close" /\ socket # 0
          THEN [closedAt EXCEPT
                  ![socket] = IF @ = -1 THEN Len(events'[socket]) ELSE @]
          ELSE closedAt
    /\ closes' = IF react = "close" THEN Counted(closes) ELSE closes

\* a variant of returnReply that reports a payload JSON.parse rejects as an error
returnReplyStrict(s, rawReply, react) ==
    IF rawReply = "OK"
    THEN UNCHANGED <<events, sockState, closedAt, closes>>
    ELSE LET firstCharOfReply == charAt0(rawReply)
         IN  IF firstCharOfReply = "{" \/ firstCharOfReply = "["
             THEN IF rawReply \in ValidJSON
                  THEN Invoke(s, Invocation(JSONparse(rawReply), "none"), sockState, react)
                  ELSE Invoke(s, Invocation(JsUndefined, "SyntaxError"), sockState, react)
             ELSE Invoke(s, Invocation(JsString(rawReply), "none"), sockState, react)

\* a variant of returnReply without the test for the acknowledgement
returnReplyNoAck(s, rawReply, react) ==
    Invoke(s, Invocation(JsString(rawReply), "none"), sockState, react)

\* the parser's returnReply
returnReply(s, rawReply, react) ==
    IF rawReply = "OK"
    THEN UNCHANGED <<events, sockState, closedAt, closes>>
    ELSE LET firstCharOfReply == charAt0(rawReply)
             reply ==
                 IF (firstCharOfReply = "{" \/ firstCharOfReply = "[")
                        /\ rawReply \in ValidJSON
                 THEN JSONparse(rawReply)
                 ELSE JsString(rawReply)
         IN  Invoke(s, Invocation(reply, "none"), sockState, react)

\* a variant of returnError that destroys the socket, as returnFatalError does
returnErrorDestroying(s, error, react) ==
    Invoke(s, Invocation(JsUndefined, "ReplyError"), destroy(sockState, s), react)

\* the parser's returnError
returnError(s, error, react) ==
    Invoke(s, Invocation(JsUndefined, "ReplyError"), sockState, react)

\* a variant of returnFatalError that leaves the socket as it is
returnFatalErrorNoDestroy(s, error, react) ==
    Invoke(s, Invocation(JsUndefined, "ParserError"), sockState, react)

\* the parser's returnFatalError
returnFatalError(s, error, react) ==
    Invoke(s, Invocation(JsUndefined, "ParserError"), destroy(sockState, s), react)

\* a variant of the listener that is bound to the handle: it assigns the handle's
\* onCloseCallback
closeListenerBound(s, hadError) ==
    /\ onCloseCallback' = hadError
    /\ UNCHANGED <<sockProp, closeNotified>>

\* the listener open() registers for the socket's 'close' event is the method
\* onClose itself, called with the socket as this and hadError as its argument:
\* it assigns the property onCloseCallback of the socket
closeListener(s, hadError) ==
    /\ sockProp' = [sockProp EXCEPT ![s] = hadError]
    /\ UNCHANGED <<onCloseCallback, closeNotified>>

\* open(query, callback): a new socket, connecting; it becomes this.socket
Open ==
    /\ executing = 0
    /\ nSockets + nFrames < MaxLoad
    /\ nSockets' = nSockets + 1
    /\ socket' = nSockets + 1
    /\ sockState' = [sockState EXCEPT ![nSockets + 1] = "connecting"]
    /\ UNCHANGED <<password, onCloseCallback, sockProp, written, wire, parserBuf,
                   executing, events, closeNotified, observerAtClose, closedAt, fatalErrors, nFrames>>
    /\ UNCHANGED <<arrived, consumed, closes, lastRegistered>>
    /\ UNCHANGED split
    /\ UNCHANGED <<queryVars, clientVars>>

\* a variant of the connect callback that writes the command before AUTH
ConnectCommandFirst(s) ==
    /\ executing = 0
    /\ sockState[s] = "connecting"
    /\ sockState' = [sockState EXCEPT ![s] = "connected"]
    /\ written' =
          [written EXCEPT
              ![s] = <<encodeQueryToRedisCommand(type, options, key) \o "\r\n">>
                        \o (IF password # "" THEN <<"AUTH " \o password \o "\r\n">>
                                               ELSE <<>>)]
    /\ UNCHANGED <<password, socket, onCloseCallback, nSockets, sockProp, wire,
                   parserBuf, executing, events, closeNotified, observerAtClose, closedAt, fatalErrors,
                   nFrames>>
    /\ UNCHANGED <<arrived, consumed, closes, lastRegistered>>
    /\ UNCHANGED split
    /\ UNCHANGED <<queryVars, clientVars>>

\* the connect callback of socket s: AUTH if a password is configured, then the
\* command
Connect(s) ==
    /\ executing = 0
    /\ sockState[s] = "connecting"
    /\ sockState' = [sockState EXCEPT ![s] = "connected"]
    /\ written' =
          [written EXCEPT
              ![s] = (IF password # "" THEN <<"AUTH " \o password \o "\r\n">> ELSE <<>>)
                        \o <<encodeQueryToRedisCommand(type, options, key) \o "\r\n">>]
    /\ UNCHANGED <<password, socket, onCloseCallback, nSockets, sockProp, wire,
                   parserBuf, executing, events, closeNotified, observerAtClose, closedAt, fatalErrors,
                   nFrames>>
    /\ UNCHANGED <<arrived, consumed, closes, lastRegistered>>
    /\ UNCHANGED split
    /\ UNCHANGED <<queryVars, clientVars>>

\* the server sends one more reply frame on the connection of socket s
ServerSend(s) ==
    /\ executing = 0
    /\ sockState[s] = "connected"
    /\ nSockets + nFrames < MaxLoad
    /\ \E frame \in ReplyFrames : wire' = [wire EXCEPT ![s] = @ \o frame]
    /\ nFrames' = nFrames + 1
    /\ UNCHANGED <<password, socket, onCloseCallback, nSockets, sockState, sockProp,
                   written, parserBuf, executing, events, closeNotified, observerAtClose, closedAt,
                   fatalErrors>>
    /\ UNCHANGED <<arrived, consumed, closes, lastRegistered>>
    /\ UNCHANGED split
    /\ UNCHANGED <<queryVars, clientVars>>

\* a variant of the 'data' event that makes a new parser for each buffer
DataEventFreshParser(s) ==
    /\ executing = 0
    /\ sockState[s] = "connected"
    /\ wire[s] # <<>>
    /\ \E n \in 1..Len(wire[s]) :
          /\ parserBuf' = [parserBuf EXCEPT ![s] = SubSeq(wire[s], 1, n)]
          /\ wire' = [wire EXCEPT ![s] = SubSeq(@, n + 1, Len(@))]
          /\ arrived' = [arrived EXCEPT ![s] = @ \o SubSeq(wire[s], 1, n)]
          /\ split' = (split \/ wire[s][n].type \in TypeBytes)
    /\ executing' = s
    /\ UNCHANGED <<password, socket, onCloseCallback, nSockets, sockState, sockProp,
                   written, events, closeNotified, observerAtClose, closedAt, fatalErrors, nFrames>>
    /\ UNCHANGED <<consumed, closes, lastRegistered>>
    /\ UNCHANGED <<queryVars, clientVars>>

\* the 'data' event of socket s with the next n bytes: parser.execute(buffer) starts
DataEvent(s) ==
    /\ executing = 0
    /\ sockState[s] = "connected"
    /\ wire[s] # <<>>
    /\ \E n \in 1..Len(wire[s]) :
          /\ parserBuf' = [parserBuf EXCEPT ![s] = @ \o SubSeq(wire[s], 1, n)]
          /\ wire' = [wire EXCEPT ![s] = SubSeq(@, n + 1, Len(@))]
          /\ arrived' = [arrived EXCEPT ![s] = @ \o SubSeq(wire[s], 1, n)]
          /\ split' = (split \/ wire[s][n].type \in TypeBytes)
    /\ executing' = s
    /\ UNCHANGED <<password, socket, onCloseCallback, nSockets, sockState, sockProp,
                   written, events, closeNotified, observerAtClose, closedAt, fatalErrors, nFrames>>
    /\ UNCHANGED <<consumed, closes, lastRegistered>>
    /\ UNCHANGED <<queryVars, clientVars>>

\* one turn of the loop of parser.execute on the bytes the parser of socket s holds
ParserStep(s) ==
    /\ executing = s
    /\ LET buf == parserBuf[s]
       IN  IF buf = <<>>
           THEN \* nothing left: execute returns
                /\ executing' = 0
                /\ UNCHANGED <<parserBuf, events, sockState, closedAt, fatalErrors,
                               consumed, closes>>
           ELSE IF buf[1].type \notin TypeBytes
           THEN \* no reply type byte: the buffer is dropped, returnFatalError,
                \* execute returns
                /\ parserBuf' = [parserBuf EXCEPT ![s] = <<>>]
                /\ consumed' = [consumed EXCEPT ![s] = Append(@, buf[1])]
                /\ fatalErrors' = [fatalErrors EXCEPT ![s] = @ + 1]
                /\ executing' = 0
                /\ \E react \in Reactions : returnFatalError(s, buf[1].type, react)
           ELSE IF Len(buf) < 2
           THEN \* an incomplete frame: execute returns and keeps the bytes
                /\ executing' = 0
                /\ UNCHANGED <<parserBuf, events, sockState, closedAt, fatalErrors,
                               consumed, closes>>
           ELSE \* a complete frame: it is consumed and handed over
                /\ parserBuf' = [parserBuf EXCEPT ![s] = SubSeq(buf, 3, Len(buf))]
                /\ consumed' = [consumed EXCEPT ![s] = @ \o SubSeq(buf, 1, 2)]
                /\ executing' = s
                /\ UNCHANGED fatalErrors
                /\ \E react \in Reactions :
                      IF buf[1].type = "-"
                      THEN returnError(s, buf[1].payload, react)
                      ELSE returnReply(s, buf[1].payload, react)
    /\ UNCHANGED <<password, socket, onCloseCallback, nSockets, sockProp, written,
                   wire, closeNotified, observerAtClose, nFrames>>
    /\ UNCHANGED <<arrived, lastRegistered>>
    /\ UNCHANGED split
    /\ UNCHANGED <<queryVars, clientVars>>

\* the server closes the connection of socket s: the socket destroys itself
ServerClose(s) ==
    /\ executing = 0
    /\ sockState[s] = "connected"
    /\ wire[s] = <<>>
    /\ sockState' = [sockState EXCEPT ![s] = "destroyed"]
    /\ UNCHANGED <<password, socket, onCloseCallback, nSockets, sockProp, written,
                   wire, parserBuf, executing, events, closeNotified, observerAtClose, closedAt,
                   fatalErrors, nFrames>>
    /\ UNCHANGED <<arrived, consumed, closes, lastRegistered>>
    /\ UNCHANGED split
    /\ UNCHANGED <<queryVars, clientVars>>

\* the 'close' event of the destroyed socket s
EmitClose(s) ==
    /\ executing = 0
    /\ sockState[s] = "destroyed"
    /\ sockState' = [sockState EXCEPT ![s] = "closed"]
    /\ wire' = [wire EXCEPT ![s] = <<>>]
    /\ closeListener(s, "false")
    /\ observerAtClose' = [observerAtClose EXCEPT ![s] = onCloseCallback]
    /\ UNCHANGED <<password, socket, nSockets, written, parserBuf, executing, events,
                   closedAt, fatalErrors, nFrames>>
    /\ UNCHANGED <<arrived, consumed, closes, lastRegistered>>
    /\ UNCHANGED split
    /\ UNCHANGED <<queryVars, clientVars>>

\* onClose(callback)
OnClose ==
    /\ executing = 0
    /\ \E callback \in CloseCallbacks :
          /\ onCloseCallback' = callback
          /\ lastRegistered' = callback
    /\ UNCHANGED <<password, socket, nSockets, sockState, sockProp, written, wire,
                   parserBuf, executing, events, closeNotified, observerAtClose, closedAt, fatalErrors,
                   nFrames>>
    /\ UNCHANGED <<arrived, consumed, closes>>
    /\ UNCHANGED split
    /\ UNCHANGED <<queryVars, clientVars>>

\* close(), called by the client between two events
Close ==
    /\ executing = 0
    /\ sockState' = close(sockState)
    /\ closedAt' =
          IF socket # 0
          THEN [closedAt EXCEPT ![socket] = IF @ = -1 THEN Len(events[socket]) ELSE @]
          ELSE closedAt
    /\ closes' = Counted(closes)
    /\ UNCHANGED <<password, socket, onCloseCallback, nSockets, sockProp, written,
                   wire, parserBuf, executing, events, closeNotified, observerAtClose, fatalErrors,
                   nFrames>>
    /\ UNCHANGED <<arrived, consumed, lastRegistered>>
    /\ UNCHANGED split
    /\ UNCHANGED <<queryVars, clientVars>>

\* the query of the fence: NEARBY fleet FENCE POINT 33 -112 6000
FenceQueryCalls ==
    [k \in ClauseKinds |->
        CASE k = "fence" -> << <<>> >>
          [] k = "point" -> << <<33, -112, Some(6000)>> >>
          [] OTHER -> <<>>]

FenceInit ==
    /\ type = "NEARBY"
    /\ key = "fleet"
    /\ options = withPoint(withFence(EmptyOptions), 33, -112, Some(6000))
    /\ calls = FenceQueryCalls
    /\ nCalls = 2
    /\ renders = 0
    /\ lastOp = "withPoint"
    /\ ret = This
    /\ thrown = "none"
    /\ password \in Passwords
    /\ Constructed
    /\ ClientConstructed

FenceNext ==
    \/ Open
    \/ OnClose
    \/ Close
    \/ \E s \in SockIds :
          \/ Connect(s)
          \/ ServerSend(s)
          \/ DataEvent(s)
          \/ ParserStep(s)
          \/ ServerClose(s)
          \/ EmitClose(s)

SpecFence == FenceInit /\ [][FenceNext]_vars

-----------------------------------------------------------------------------
(* CoreClient: the 'connect' event, execute(), the debounce timer, the replies *)

\* this.client.sendCommand(command, args, callback) for execute call id
sendCommand(id) ==
    /\ outbox' = Append(outbox, [call |-> id, command |-> command'[id].command,
                                 args |-> command'[id].args])
    /\ forwards' = [forwards EXCEPT ![id] = @ + 1]
    /\ phase' = [phase EXCEPT ![id] = "sent"]

\* a variant of the 'connect' handler that starts the initialization over
TransportConnectResetting ==
    /\ ~connected
    /\ connected' = TRUE
    /\ initialized' = FALSE
    /\ outbox' = Append(outbox, OutputJson)
    /\ UNCHANGED <<phase, command, promise, retries, forwards,
                   settleCalls, debounced, replies, uncaught>>
    /\ UNCHANGED <<queryVars, fenceVars>>

\* the 'connect' event of the transport, on the first connection and on every
\* reconnection: sendCommand("OUTPUT", ["json"], callback)
TransportConnect ==
    /\ ~connected
    /\ connected' = TRUE
    /\ outbox' = Append(outbox, OutputJson)
    /\ UNCHANGED <<initialized, phase, command, promise, retries, forwards,
                   settleCalls, debounced, replies, uncaught>>
    /\ UNCHANGED <<queryVars, fenceVars>>

\* the reply to OUTPUT json arrives: its callback sets initialized, error or not
OutputReply ==
    /\ outbox # <<>>
    /\ Head(outbox).call = 0
    /\ \E error \in {"null", "ReplyError"} : initialized' = TRUE
    /\ outbox' = Tail(outbox)
    /\ UNCHANGED <<connected, phase, command, promise, retries, forwards,
                   settleCalls, debounced, replies, uncaught>>
    /\ UNCHANGED <<queryVars, fenceVars>>

\* the 'error' event of the transport when it has lost its connection, no command
\* being in flight (the callback of a command in flight at that moment is called
\* with the error: OutputReply and Reply with an error): onClientError logs
onClientError ==
    /\ connected
    /\ outbox = <<>>
    /\ connected' = FALSE
    /\ UNCHANGED <<initialized, outbox, phase, command, promise, retries, forwards,
                   settleCalls, debounced, replies, uncaught>>
    /\ UNCHANGED <<queryVars, fenceVars>>

\* a variant of execute without the debounce: it sends whatever initialized is
ExecuteEager(id) ==
    /\ phase[id] = "new"
    /\ \A other \in ExecIds : other < id => phase[other] # "new"
    /\ \E c \in Commands : command' = [command EXCEPT ![id] = c]
    /\ sendCommand(id)
    /\ UNCHANGED <<initialized, connected, promise, retries, settleCalls, replies,
                   uncaught, debounced>>
    /\ UNCHANGED <<queryVars, fenceVars>>

\* a caller calls execute(command, ...args): the next call
Execute(id) ==
    /\ phase[id] = "new"
    /\ \A other \in ExecIds : other < id => phase[other] # "new"
    /\ \E c \in Commands : command' = [command EXCEPT ![id] = c]
    /\ IF ~initialized
       THEN \* a promise whose executor sets the timer
            /\ phase' = [phase EXCEPT ![id] = "debouncing"]
            /\ debounced' = [debounced EXCEPT ![id] = TRUE]
            /\ UNCHANGED <<outbox, forwards>>
       ELSE /\ sendCommand(id)
            /\ UNCHANGED debounced
    /\ UNCHANGED <<initialized, connected, promise, retries, settleCalls, replies,
                   uncaught>>
    /\ UNCHANGED <<queryVars, fenceVars>>

\* a variant of the timer that gives the call up when the client is not initialized
TimerGivesUp(id) ==
    /\ phase[id] = "debouncing"
    /\ IF ~initialized
       THEN /\ phase' = [phase EXCEPT ![id] = "dropped"]
            /\ UNCHANGED <<outbox, forwards, retries, command>>
       ELSE /\ UNCHANGED command
            /\ sendCommand(id)
            /\ UNCHANGED retries
    /\ UNCHANGED <<initialized, connected, promise, settleCalls, debounced, replies,
                   uncaught>>
    /\ UNCHANGED <<queryVars, fenceVars>>

\* the timer of a debounced call fires: this.execute(command, ...args) again, its
\* outcome passed on to the promise of the call
Timer(id) ==
    /\ phase[id] = "debouncing"
    /\ IF ~initialized
       THEN /\ retries[id] < MaxRetries
            /\ retries' = [retries EXCEPT ![id] = @ + 1]
            /\ UNCHANGED <<outbox, forwards, phase, command>>
       ELSE /\ UNCHANGED command
            /\ sendCommand(id)
            /\ UNCHANGED retries
    /\ UNCHANGED <<initialized, connected, promise, settleCalls, debounced, replies,
                   uncaught>>
    /\ UNCHANGED <<queryVars, fenceVars>>

\* a variant of the callback that resolves with every reply it can parse
sendCommandCallbackLenient(id, error, rawResult) ==
    IF rawResult \notin ParsableResults
    THEN /\ uncaught' = uncaught \cup {id}
         /\ UNCHANGED <<promise, settleCalls>>
    ELSE /\ promise' = [promise EXCEPT ![id] = resolve(@, parseResult(rawResult).text)]
         /\ settleCalls' = [settleCalls EXCEPT ![id] = @ + 1]
         /\ UNCHANGED uncaught

\* the callback execute passes to sendCommand, for call id
sendCommandCallback(id, error, rawResult) ==
    IF rawResult \notin ParsableResults
    THEN \* JSON.parse(rawResult) throws
         /\ uncaught' = uncaught \cup {id}
         /\ UNCHANGED <<promise, settleCalls>>
    ELSE LET result == parseResult(rawResult)
             p1 == IF error # "null" THEN reject(promise[id], error) ELSE promise[id]
             n1 == IF error # "null" THEN 1 ELSE 0
             p2 == IF result.ok
                   THEN resolve(p1, result.text)
                   ELSE IF result.err # ""
                        THEN reject(p1, result.err)
                        ELSE reject(p1, rawCommandOf(command[id])
                                          \o ": unexpected response: [object Object]")
         IN  /\ promise' = [promise EXCEPT ![id] = p2]
             /\ settleCalls' = [settleCalls EXCEPT ![id] = @ + n1 + 1]
             /\ UNCHANGED uncaught

\* the reply to the oldest command of a caller arrives: its callback runs
Reply ==
    /\ outbox # <<>>
    /\ Head(outbox).call # 0
    /\ LET id == Head(outbox).call
       IN  \E a \in Arrivals(command[id]) :
              /\ replies' = [replies EXCEPT ![id] = a]
              /\ phase' = [phase EXCEPT ![id] = "replied"]
              /\ sendCommandCallback(id, a.error, a.rawResult)
    /\ outbox' = Tail(outbox)
    /\ UNCHANGED <<initialized, connected, command, retries, forwards, debounced>>
    /\ UNCHANGED <<queryVars, fenceVars>>

ClientInit == QueryInit

ClientNext ==
    \/ TransportConnect
    \/ OutputReply
    \/ Reply
    \/ \E id \in ExecIds : Execute(id) \/ Timer(id)

SpecClient == ClientInit /\ [][ClientNext]_vars

\* the transport connects, replies arrive and timers fire
ClientFairness ==
    /\ WF_vars(TransportConnect)
    /\ WF_vars(OutputReply)
    /\ WF_vars(Reply)
    /\ \A id \in ExecIds : WF_vars(Timer(id))

SpecClientLive == SpecClient /\ ClientFairness

\* the client on a transport that loses its connection and connects again
ReconnectNext == ClientNext \/ onClientError

SpecClientReconnect == ClientInit /\ [][ReconnectNext]_vars

-----------------------------------------------------------------------------
(* Helpers of the properties of Tile38Query *)

\* the key of the options object that the setter of a clause kind writes
StoredKey(kind) ==
    CASE kind = "match" -> "matches"
      [] kind = "nofields" -> "noFields"
      [] OTHER -> kind

\* the setter of clause kind `kind` applied to the argument list a
ApplySetter(o, kind, a) ==
    CASE kind = "cursor" -> withCursor(o, a[1])
      [] kind = "limit" -> withLimit(o, a[1])
      [] kind = "sparse" -> withSparse(o, a[1])
      [] kind = "match" -> withMatch(o, a[1])
      [] kind = "order" -> order(o, a[1])
      [] kind = "distance" -> withDistance(o)
      [] kind = "where" -> withWhere(o, a[1], a[2])
      [] kind = "whereIn" -> withWhereIn(o, a[1], a[2])
      [] kind = "whereEval" -> withWhereEval(o, a[1], a[2])
      [] kind = "whereEvalSha" -> withWhereEvalSha(o, a[1], a[2])
      [] kind = "clip" -> withClip(o)
      [] kind = "nofields" -> withNoFields(o)
      [] kind = "fence" -> withFence(o)
      [] kind = "detect" -> withDetect(o, a[1])
      [] kind = "commands" -> withCommands(o, a[1])
      [] kind = "output" -> withOutput(o, a[1], a[2])
      [] kind = "getObject" -> withGetObject(o, a[1], a[2])
      [] kind = "bounds" -> withBounds(o, a[1], a[2], a[3], a[4])
      [] kind = "geojson" -> withObject(o, a[1])
      [] kind = "tile" -> withTile(o, a[1], a[2], a[3])
      [] kind = "quadKey" -> withQuadKey(o, a[1])
      [] kind = "hash" -> withHash(o, a[1])
      [] kind = "point" -> withPoint(o, a[1], a[2], a[3])
      [] kind = "circle" -> withCircle(o, a[1], a[2], a[3])
      [] kind = "roam" -> withRoam(o, a[1], a[2], a[3])

\* the tokens one call of a setter stores on a query that has no clause yet
Group(kind, a) == ApplySetter(EmptyOptions, kind, a)[StoredKey(kind)]

\* the calls of one kind made one after the other, oldest first
RECURSIVE ReplayKind(_, _, _)
ReplayKind(o, kind, as) ==
    IF as = <<>> THEN o ELSE ReplayKind(ApplySetter(o, kind, Head(as)), kind, Tail(as))

\* the calls of the history h made kind after kind, in the order of the table
RECURSIVE ReplayFrom(_, _, _)
ReplayFrom(o, h, kinds) ==
    IF kinds = <<>> THEN o
    ELSE ReplayFrom(ReplayKind(o, Head(kinds), h[Head(kinds)]), h, Tail(kinds))

Replay(h) == ReplayFrom(EmptyOptions, h, ClauseOrder)

Last(seq) == seq[Len(seq)]
Front(seq) == SubSeq(seq, 1, Len(seq) - 1)

\* the clause kinds whose setter has been called
Called == {k \in ClauseKinds : calls[k] # <<>>}

\* the keyword tokens that open a token group of a clause kind
Keywords(kind) ==
    CASE kind = "cursor" -> {"CURSOR"}
      [] kind = "limit" -> {"LIMIT"}
      [] kind = "sparse" -> {"SPARSE"}
      [] kind = "match" -> {"MATCH"}
      [] kind = "order" -> {"ASC", "DESC"}
      [] kind = "distance" -> {"DISTANCE"}
      [] kind = "where" -> {"WHERE"}
      [] kind = "whereIn" -> {"WHEREIN"}
      [] kind = "whereEval" -> {"WHEREEVAL"}
      [] kind = "whereEvalSha" -> {"WHEREEVALSHA"}
      [] kind = "clip" -> {"CLIP"}
      [] kind = "nofields" -> {"NOFIELDS"}
      [] kind = "fence" -> {"FENCE"}
      [] kind = "detect" -> {"DETECT"}
      [] kind = "commands" -> {"COMMANDS"}
      [] kind = "output" -> {"IDS", "COUNT", "OBJECTS", "POINTS", "HASHES"}
      [] kind = "getObject" -> {"GET"}
      [] kind = "bounds" -> {"BOUNDS"}
      [] kind = "geojson" -> {"OBJECT"}
      [] kind = "tile" -> {"TILE"}
      [] kind = "quadKey" -> {"QUADKEY"}
      [] kind = "hash" -> {"HASH"}
      [] kind = "point" -> {"POINT"}
      [] kind = "circle" -> {"CIRCLE"}
      [] kind = "roam" -> {"ROAM"}

AllKeywords == UNION {Keywords(k) : k \in ClauseKinds}

\* the position in the fixed clause order table of the clause kind of a keyword
TableIndex ==
    [w \in AllKeywords |->
        CHOOSE i \in 1..Len(ClauseOrder) : w \in Keywords(ClauseOrder[i])]

IsKeyword(tok) == "str" \in DOMAIN tok /\ tok.str \in AllKeywords

IsKeywordOf(tok, kind) == "str" \in DOMAIN tok /\ tok.str \in Keywords(kind)

\* the positions of the array arr that hold a keyword of the clause kind
KeywordPositions(arr, kind) == {i \in 1..Len(arr) : IsKeywordOf(arr[i], kind)}

\* the rendered array of the query as it is now
Rendered == compileCommandArray(options, key)

\* the rendered string of the query as it is now
RenderedString == compileCommand(type, options, key)

RenderOps == {"compileCommandArray", "compileCommand", "toString"}

\* what a render returned, as a string
AsString(r) == IF r.kind = "array" THEN type \o " " \o join(r.val, " ") ELSE r.val

-----------------------------------------------------------------------------
(* Properties of Tile38Query *)

\* C1: whatever the order of the setter calls, the token groups of the rendered
\* command follow the fixed clause order table: no keyword of a clause kind that is
\* later in the table stands before a keyword of a kind that is earlier, and the
\* stored clauses, and so the render, are those of the same calls made in the
\* order of the table.
C1_FixedClauseOrder ==
    /\ LET arr == Rendered
       IN  \A i \in 1..Len(arr), j \in 1..Len(arr) :
               (i < j /\ IsKeyword(arr[i]) /\ IsKeyword(arr[j])) =>
                   TableIndex[arr[i].str] <= TableIndex[arr[j].str]
    /\ options = Replay(calls)

\* withLimit was called before withCursor, and the render has CURSOR before LIMIT
C1_Witness ==
    /\ lastOp = "withCursor"
    /\ calls["limit"] = << <<2>> >>
    /\ calls["cursor"] = << <<1>> >>
    /\ type = "NEARBY"
    /\ RenderedString = "NEARBY fleet CURSOR 1 LIMIT 2"

\* the tokens of every clause whose setter was called, each token after one space
RECURSIVE SetClauseText(_)
SetClauseText(kinds) ==
    IF kinds = <<>> THEN ""
    ELSE (IF Head(kinds) \in Called
          THEN " " \o join(options[StoredKey(Head(kinds))], " ")
          ELSE "")
            \o SetClauseText(Tail(kinds))

\* C2: compileCommand never fails and returns exactly the query type, the key and
\* the tokens of every clause that was set, in the order of the table, separated by
\* single spaces.
C2_ExactRender ==
    lastOp = "compileCommand" =>
        /\ thrown = "none"
        /\ ret.val = type \o " " \o key \o SetClauseText(ClauseOrder)

\* the token groups of the calls as, newest first
RECURSIVE NewestFirst(_, _)
NewestFirst(kind, as) ==
    IF as = <<>> THEN <<>> ELSE NewestFirst(kind, Tail(as)) \o Group(kind, Head(as))

\* arr holds the tokens seg as one contiguous run
Holds(arr, seg) ==
    \E p \in 1..Len(arr) :
        p + Len(seg) - 1 <= Len(arr) /\ SubSeq(arr, p, p + Len(seg) - 1) = seg

\* C3: after n calls of the setter of a multi-valued clause kind the render holds
\* the n token groups of the kind, none lost and none twice, newest first.
C3_MultiValuedNewestFirst ==
    \A k \in MultiValued :
        calls[k] # <<>> =>
            /\ Holds(Rendered, NewestFirst(k, calls[k]))
            /\ Cardinality(KeywordPositions(Rendered, k)) = Len(calls[k])

\* withWhere("a",1,2) then withWhere("b",3,4)
C3_Witness ==
    /\ calls["where"] = << <<"a", <<Num(1), Num(2)>>>>, <<"b", <<Num(3), Num(4)>>>> >>
    /\ type = "NEARBY"
    /\ RenderedString = "NEARBY fleet WHERE b 3 4 WHERE a 1 2"

\* the history h with only the last call of clause kind k kept
KeepLast(h, k) == [h EXCEPT ![k] = <<Last(h[k])>>]

\* C4: after two or more calls of the setter of a single-valued clause kind the
\* stored clause is the token group of the last call alone, and the render is the
\* render of the query on which, of these calls, only the last one was made.
C4_SingleValuedReplaced ==
    \A k \in SingleValued :
        Len(calls[k]) >= 2 =>
            /\ options[StoredKey(k)] = Group(k, Last(calls[k]))
            /\ Rendered = compileCommandArray(Replay(KeepLast(calls, k)), key)
            /\ Cardinality(KeywordPositions(Rendered, k)) <= 1

\* withCursor(0) then withCursor(1)
C4_Witness ==
    /\ calls["cursor"] = << <<0>>, <<1>> >>
    /\ type = "NEARBY"
    /\ RenderedString = "NEARBY fleet CURSOR 1"

\* C5: a render leaves type, key and the stored clauses as they were, and a render
\* that follows a render returns the same command.
C5_RenderReadOnly ==
    [][(lastOp' \in RenderOps /\ renders' = renders + 1) =>
            /\ type' = type /\ key' = key /\ options' = options
            /\ (lastOp \in RenderOps /\ renders >= 1 => AsString(ret') = AsString(ret))
            /\ AsString(ret') = compileCommand(type, options, key)]_vars

\* a second render in a row, of a query with a clause
C5_Witness ==
    /\ renders = 2
    /\ lastOp = "toString"
    /\ calls["cursor"] = << <<1>> >>
    /\ ret.val = "NEARBY fleet CURSOR 1"

\* the position in the rendered array at which the table places the clause kind k:
\* after the key and after the token groups of the set kinds that precede k
RECURSIVE LenBefore(_, _)
LenBefore(kinds, k) ==
    IF kinds = <<>> \/ Head(kinds) = k THEN 0
    ELSE (IF Head(kinds) \in Called THEN Len(options[StoredKey(Head(kinds))]) ELSE 0)
            + LenBefore(Tail(kinds), k)

TablePosition(k) == 2 + LenBefore(ClauseOrder, k)

\* C6: once the setter of a clause kind has been called, the rendered array holds
\* the keyword of that clause at the position the table gives it; after
\* withNoFields() it holds NOFIELDS, after any CLIP and before any FENCE.
C6_KeywordAtTablePosition ==
    lastOp = "compileCommandArray" =>
        /\ \A k \in Called :
              /\ TablePosition(k) <= Len(ret.val)
              /\ IsKeywordOf(ret.val[TablePosition(k)], k)
        /\ "nofields" \in Called =>
              \E n \in KeywordPositions(ret.val, "nofields") :
                  /\ \A c \in KeywordPositions(ret.val, "clip") : c < n
                  /\ \A f \in KeywordPositions(ret.val, "fence") : n < f

\* C7: withSparse with a spread outside 1..8 throws InvalidArgument and leaves the
\* stored clauses as they were before the call.
C7_SparseRangeRejected ==
    (lastOp = "withSparse" /\ Last(calls["sparse"])[1] \notin 1..8) =>
        /\ thrown = "InvalidArgument"
        /\ options = Replay([calls EXCEPT !["sparse"] = Front(@)])

\* the clause kinds whose token group carries a count token
CountedKinds == {"whereIn", "whereEval", "whereEvalSha"}

\* the token that follows the keyword in the token group of a call with first
\* argument x: the field, the script in double quotes, the sha
Subject(kind, x) == IF kind = "whereEval" THEN "\"" \o x \o "\"" ELSE x

\* the token group KEYWORD subject n v1 .. vn for the values vs
CountedGroup(kind, x, vs) ==
    <<Str(CHOOSE w \in Keywords(kind) : TRUE), Str(Subject(kind, x)), Num(Len(vs))>>
        \o vs

\* C22: every call withWhereIn(field, v1..vn) contributes to the render the token
\* group WHEREIN field n v1 .. vn whose count token n is the number of values
\* passed, and so do withWhereEval and withWhereEvalSha with the number of args:
\* in the render every keyword of these kinds is followed, two places on, by the
\* number of tokens that stand between the count token and the next token group.
C22_CountTokenIsNumberOfValues ==
    \A k \in CountedKinds :
        calls[k] # <<>> =>
            LET arr == Rendered
                kw == KeywordPositions(arr, k)
            IN  /\ \A i \in 1..Len(calls[k]) :
                      Holds(arr, CountedGroup(k, calls[k][i][1], calls[k][i][2]))
                /\ \A p \in kw :
                      /\ p + 2 <= Len(arr)
                      /\ "num" \in DOMAIN arr[p + 2]
                      /\ LET n == arr[p + 2].num
                         IN  /\ p + 2 + n <= Len(arr)
                             /\ \A q \in (p + 1)..(p + 2 + n) : ~IsKeyword(arr[q])
                             /\ p + 2 + n < Len(arr) => IsKeyword(arr[p + 3 + n])

\* withPoint(0, 0) then withWhereIn("speed", 30, 60)
C22_Witness ==
    /\ lastOp = "withWhereIn"
    /\ calls["point"] = << <<0, 0, Undefined>> >>
    /\ calls["whereIn"] = << <<"speed", <<Num(30), Num(60)>>>> >>
    /\ type = "NEARBY"
    /\ RenderedString = "NEARBY fleet WHEREIN speed 2 30 60 POINT 0 0"

\* C23: the output clause carries a precision token only when the output type of
\* the last call is HASHES and a positive precision was given: then the clause is
\* HASHES precision; for every other type, and for HASHES without a positive
\* precision, the clause stored and rendered is the type token alone.
C23_PrecisionOnlyForHashes ==
    calls["output"] # <<>> =>
        LET a == Last(calls["output"])
            arr == Rendered
            withPrecision == a[1] = "HASHES" /\ a[2] # Undefined /\ a[2][1] > 0
        IN  /\ options["output"] =
                  IF withPrecision THEN <<Str("HASHES"), Num(a[2][1])>>
                  ELSE <<Str(a[1])>>
            /\ \A p \in KeywordPositions(arr, "output") :
                  IF withPrecision
                  THEN /\ p < Len(arr)
                       /\ arr[p + 1] = Num(a[2][1])
                       /\ p + 1 < Len(arr) => IsKeyword(arr[p + 2])
                  ELSE /\ arr[p] = Str(a[1])
                       /\ p < Len(arr) => IsKeyword(arr[p + 1])
            /\ Cardinality(KeywordPositions(arr, "output")) = 1

\* withOutput("HASHES", 6) then withOutput("COUNT", 6): the precision is dropped
C23_Witness ==
    /\ lastOp = "withOutput"
    /\ calls["output"] = << <<"HASHES", Some(6)>>, <<"COUNT", Some(6)>> >>
    /\ type = "NEARBY"
    /\ RenderedString = "NEARBY fleet COUNT"

\* C24: a call of a clause setter returns the query itself and leaves the query
\* type and the key as they were; it is a call of one clause kind, and the stored
\* tokens of every other clause kind are after the call what they were before it:
\* no other clause is added, removed or changed.
C24_SetterFrame ==
    [][nCalls' = nCalls + 1 =>
          /\ ret' = This
          /\ type' = type
          /\ key' = key
          /\ \E k \in ClauseKinds :
                /\ calls'[k] # <<>>
                /\ Front(calls'[k]) = calls[k]
                /\ \A other \in ClauseKinds \ {k} : calls'[other] = calls[other]
                /\ StoredKey(k) \in DOMAIN options'
                /\ \A x \in ((DOMAIN options) \cup (DOMAIN options')) \ {StoredKey(k)} :
                      /\ x \in DOMAIN options
                      /\ x \in DOMAIN options'
                      /\ options'[x] = options[x]]_vars

\* withPoint(33, -112, 6000) then withCircle(1, 2, 30): the point clause is as it was
C24_Witness ==
    /\ lastOp = "withCircle"
    /\ ret = This
    /\ calls["point"] = << <<33, -112, Some(6000)>> >>
    /\ calls["circle"] = << <<1, 2, 30>> >>
    /\ options["point"] = <<Str("POINT"), Num(33), Num(-112), Num(6000)>>
    /\ options["circle"] = <<Str("CIRCLE"), Num(1), Num(2), Num(30)>>
    /\ DOMAIN options = {"point", "circle"}

-----------------------------------------------------------------------------
(* Properties of LiveGeofence *)

\* the positions of the invocations of the event callback of socket s that carry
\* the error of a fatal protocol error
FatalEvents(s) == {i \in 1..Len(events[s]) : events[s][i].error = "ParserError"}

\* the closure callback cb has been invoked for the close of socket s
ClosureNotified(s, cb) ==
    \E i \in 1..Len(closeNotified) : closeNotified[i] = [socket |-> s, callback |-> cb]

\* C8: whenever a connection reaches Closed (the 'close' event of its socket is
\* emitted, after close(), a fatal protocol error or a remote close), the closure
\* callback that was registered through onClose is invoked; after a fatal error
\* both the event callback and the closure callback have been invoked.
C8_ClosureCallbackInvoked ==
    \A s \in SockIds :
        (sockState[s] = "closed" /\ observerAtClose[s] \in CloseCallbacks) =>
            /\ ClosureNotified(s, observerAtClose[s])
            /\ fatalErrors[s] > 0 => FatalEvents(s) # {}

C10_FatalErrorOnceAndLast ==
    \A s \in SockIds :
        /\ Cardinality(FatalEvents(s)) = fatalErrors[s]
        /\ fatalErrors[s] > 0 =>
              /\ FatalEvents(s) = {Len(events[s])}
              /\ events[s][Len(events[s])].result = JsUndefined
              /\ sockState[s] \in {"destroyed", "closed"}

\* a reply was delivered, then a fatal error, and the socket has closed
C10_Witness ==
    /\ fatalErrors[1] = 1
    /\ sockState[1] = "closed"
    /\ Len(events[1]) = 2
    /\ events[1][1].error = "none"
    /\ events[1][1].result.t = "string"
    /\ events[1][1].result.v = "hello"
    /\ events[1][2].error = "ParserError"
    /\ events[1][2].result.t = "undefined"

-----------------------------------------------------------------------------
(* Properties of the reply stream of LiveGeofence *)

\* what the subscriber is to receive for a reply payload: the decoded value of a
\* payload that is JSON text, the payload itself otherwise
Decoded(payload) ==
    CASE payload = "{\"id\":1}" -> [t |-> "object", v |-> [id |-> 1]]
      [] payload = "[7]" -> [t |-> "array", v |-> <<7>>]
      [] OTHER -> [t |-> "string", v |-> payload]

\* the invocations of the event callback that the frame with head `head` is to cause
ExpectedOfFrame(head) ==
    CASE head.type \notin TypeBytes -> <<Invocation(JsUndefined, "ParserError")>>
      [] head.type = "-" -> <<Invocation(JsUndefined, "ReplyError")>>
      [] head.payload = "OK" -> <<>>
      [] OTHER -> <<Invocation(Decoded(head.payload), "none")>>

\* the heads of the frames in a sequence of bytes made of whole frames
RECURSIVE FramesOf(_)
FramesOf(pieces) ==
    IF pieces = <<>> THEN <<>>
    ELSE IF pieces[1].type \notin TypeBytes
         THEN <<pieces[1]>> \o FramesOf(Tail(pieces))
         ELSE <<pieces[1]>> \o FramesOf(SubSeq(pieces, 3, Len(pieces)))

\* the invocations that a sequence of frame heads is to cause, in order
RECURSIVE ExpectedEvents(_)
ExpectedEvents(heads) ==
    IF heads = <<>> THEN <<>>
    ELSE ExpectedOfFrame(heads[1]) \o ExpectedEvents(Tail(heads))

\* two values of the subscriber's language are the same value
SameValue(a, b) == a.t = b.t /\ (a.t = "undefined" \/ a.v = b.v)

\* two sequences of invocations are the same invocations in the same order
SameEvents(es, fs) ==
    /\ Len(es) = Len(fs)
    /\ \A i \in 1..Len(es) :
          es[i].error = fs[i].error /\ SameValue(es[i].result, fs[i].result)

\* the positions of the invocations of the event callback of socket s that carry
\* the error of a recoverable protocol error
ErrorEvents(s) == {i \in 1..Len(events[s]) : events[s][i].error = "ReplyError"}

\* the error frames the parser of socket s has consumed
ErrorFrames(s) == {i \in 1..Len(consumed[s]) : consumed[s][i].type = "-"}

\* the parser of socket s has handed over every complete frame that has arrived
AllArrivedDelivered(s) ==
    /\ arrived[s] = consumed[s] \o parserBuf[s]
    /\ Len(parserBuf[s]) < 2
    /\ SameEvents(events[s], ExpectedEvents(FramesOf(consumed[s])))

\* C11: a recoverable protocol error invokes the event callback with the error and
\* an undefined result, once per error frame; the step that delivers it leaves
\* every socket as it is unless the callback itself calls close(); and on a
\* connection that has delivered such an error and is still open, every complete
\* frame that has arrived has been decoded and delivered.
C11_RecoverableErrorKeepsStream ==
    /\ [](\A s \in SockIds :
            /\ Cardinality(ErrorEvents(s)) = Cardinality(ErrorFrames(s))
            /\ \A i \in ErrorEvents(s) : SameValue(events[s][i].result, JsUndefined)
            /\ (ErrorEvents(s) # {} /\ executing # s /\ sockState[s] = "connected"
                    /\ fatalErrors[s] = 0)
                 => AllArrivedDelivered(s))
    /\ [][\A s \in SockIds :
            (/\ Len(events'[s]) = Len(events[s]) + 1
             /\ Last(events'[s]).error = "ReplyError"
             /\ closedAt' = closedAt)
               => sockState' = sockState]_vars

\* an error was delivered, then a reply, and the connection is still open
C11_Witness ==
    /\ SameEvents(events[1], << Invocation(JsUndefined, "ReplyError"),
                                 Invocation(JsString("hello"), "none") >>)
    /\ sockState[1] = "connected"
    /\ closes = "never"
    /\ executing = 0

\* the acknowledgement: a reply equal to "OK"
IsAck(head) == head.type # "-" /\ head.type \in TypeBytes /\ head.payload = "OK"

\* the frames the parser of socket s has consumed that are no acknowledgement
Surfaced(s) ==
    LET heads == FramesOf(consumed[s])
    IN  {i \in 1..Len(heads) : ~IsAck(heads[i])}

\* C12: at every moment the event callback of a connection has been invoked once
\* for each frame consumed that is no acknowledgement, and not at all for the
\* acknowledgements: no invocation carries the reply "OK".  (A step consumes one
\* frame, so each frame causes at most one invocation.)
C12_OneEventPerFrameNoneForAck ==
    \A s \in SockIds :
        /\ Len(events[s]) = Cardinality(Surfaced(s))
        /\ \A i \in 1..Len(events[s]) :
              ~SameValue(events[s][i].result, JsString("OK"))

\* the acknowledgement was consumed, then a reply: one invocation
C12_Witness ==
    /\ LET heads == FramesOf(consumed[1])
       IN  /\ Len(heads) = 2
           /\ IsAck(heads[1])
           /\ heads[2].payload = "hello"
    /\ SameEvents(events[1], << Invocation(JsString("hello"), "none") >>)

\* the payloads that start with '{' or '['
LooksLikeJSON == {"{\"id\":1}", "{oops", "[7]", "[oops"}

\* the frames among `heads` that carry a reply to surface: no error frame, no
\* acknowledgement, no bytes outside the protocol
ReplyHeads(heads) ==
    LET IsReply(h) == h.type \in TypeBytes /\ h.type # "-" /\ h.payload # "OK"
    IN  SelectSeq(heads, IsReply)

\* the invocations among `es` that carry a reply
ReplyEvents(es) ==
    LET IsReply(e) == e.error = "none"
    IN  SelectSeq(es, IsReply)

\* C13: the reply invocations of a connection carry, frame by frame and with no
\* error argument, the decoded value of a payload that starts with '{' or '[' and
\* is JSON text, and the payload string itself otherwise (a payload that starts
\* with '{' or '[' and is no JSON text, or a payload that starts with another
\* character); the step that delivers a reply leaves every socket as it is unless
\* the callback itself calls close().
C13_ReplyDecodedOrVerbatim ==
    /\ [](\A s \in SockIds :
            LET heads == ReplyHeads(FramesOf(consumed[s]))
                surfaced == ReplyEvents(events[s])
            IN  /\ Len(surfaced) = Len(heads)
                /\ \A i \in 1..Len(heads) :
                      /\ SameValue(surfaced[i].result, Decoded(heads[i].payload))
                      /\ (heads[i].payload \notin LooksLikeJSON
                             \/ heads[i].payload \notin ValidJSON)
                           => SameValue(surfaced[i].result, JsString(heads[i].payload)))
    /\ [][\A s \in SockIds :
            (/\ Len(events'[s]) = Len(events[s]) + 1
             /\ Last(events'[s]).error = "none"
             /\ closedAt' = closedAt)
               => sockState' = sockState]_vars

\* a payload that starts with '{' and is no JSON text was delivered as it is, then
\* a JSON payload was delivered decoded, and the connection is still open
C13_Witness ==
    /\ SameEvents(events[1], << Invocation(JsString("{oops"), "none"),
                                 Invocation([t |-> "object", v |-> [id |-> 1]], "none") >>)
    /\ sockState[1] = "connected"
    /\ closes = "never"

-----------------------------------------------------------------------------
(* Properties of the handle: the handshake, close(), onClose() *)

\* the frames open() is to write once the connection is established, the command
\* being the rendered command of the query of the fence
Handshake ==
    IF password = ""
    THEN << "NEARBY fleet FENCE POINT 33 -112 6000\r\n" >>
    ELSE << "AUTH " \o password \o "\r\n", "NEARBY fleet FENCE POINT 33 -112 6000\r\n" >>

\* C14: nothing is written to a socket that is connecting; what has been written
\* to a socket is nothing or the whole handshake: the AUTH frame exactly when a
\* password is configured and before the command frame, the command frame once,
\* each ended by \r\n; the handshake is written in the step that establishes the
\* connection and nothing is written to that socket afterwards.
C14_HandshakeOrder ==
    /\ [](\A s \in SockIds :
            /\ sockState[s] \in {"none", "connecting"} => written[s] = <<>>
            /\ sockState[s] = "connected" => written[s] = Handshake
            /\ written[s] \in {<<>>, Handshake})
    /\ [][\A s \in SockIds :
            written'[s] # written[s] =>
                /\ written[s] = <<>>
                /\ sockState[s] = "connecting"
                /\ sockState'[s] = "connected"]_vars

\* with a password configured: AUTH, then the command, on an established connection
C14_Witness ==
    /\ password = "secret"
    /\ sockState[1] = "connected"
    /\ written[1] = << "AUTH secret\r\n", "NEARBY fleet FENCE POINT 33 -112 6000\r\n" >>

\* seq is a prefix of the sequence of bytes `of`
IsPrefix(seq, of) == Len(seq) <= Len(of) /\ seq = SubSeq(of, 1, Len(seq))

\* C15: however the bytes of a connection are split into 'data' events, the frames
\* its parser has consumed are whole frames taken in order from the bytes that
\* have arrived; the invocations of the event callback are those of the consumed
\* frames, one for one and in the order of the frames; and, on a connection
\* without a fatal error, once parser.execute has returned every complete frame that has arrived
\* has been consumed: what the parser holds is at most the head of a frame whose
\* last byte has not arrived.
C15_FragmentationTolerance ==
    \A s \in SockIds :
        /\ IsPrefix(consumed[s], arrived[s])
        /\ SameEvents(events[s], ExpectedEvents(FramesOf(consumed[s])))
        /\ (fatalErrors[s] = 0 /\ executing # s) =>
              /\ arrived[s] = consumed[s] \o parserBuf[s]
              /\ Len(parserBuf[s]) < 2
              /\ parserBuf[s] # <<>> => parserBuf[s][1].type \in TypeBytes

\* the one frame of the connection arrived in two 'data' events and was delivered once
C15_Witness ==
    /\ split
    /\ nSockets = 1
    /\ nFrames = 1
    /\ arrived[1] = <<FrameHead("+", "hello"), CRLF>>
    /\ consumed[1] = arrived[1]
    /\ executing = 0
    /\ SameEvents(events[1], << Invocation(JsString("hello"), "none") >>)

\* the state of the handle and of its sockets, the histories left out
handleState ==
    <<socket, onCloseCallback, sockState, sockProp, written, wire, parserBuf,
      executing, events, closeNotified>>

\* close() finds nothing to destroy: no socket yet, or a socket destroyed before
NothingToDestroy == socket = 0 \/ sockState[socket] \in {"destroyed", "closed"}

\* C16: close() can be called in every state in which no callback is running
\* (before open(), while connecting, while streaming, after the connection has
\* closed); what it does to the sockets, done twice, is what it does done once;
\* it changes no socket but the one the handle holds; and a close() that finds
\* no socket, or a socket destroyed before, changes nothing.
C16_CloseSafeAndIdempotent ==
    /\ [](/\ executing = 0 => ENABLED Close
          /\ LET once == close(sockState)
                 twice == IF socket # 0 THEN destroy(once, socket) ELSE once
             IN  /\ twice = once
                 /\ \A s \in SockIds : s # socket => once[s] = sockState[s]
                 /\ NothingToDestroy => once = sockState)
    /\ [][(Close /\ NothingToDestroy) => UNCHANGED handleState]_vars

\* close() was called again on a connection that an earlier close() had destroyed
\* while it was streaming
C16_Witness ==
    /\ closes = "again"
    /\ socket = 1
    /\ nSockets = 1
    /\ sockState[1] = "closed"
    /\ written[1] # <<>>
    /\ closedAt[1] = 0
    /\ fatalErrors[1] = 0

\* the sockets that open() has made on the handle
Opened == 1..nSockets

\* C17: when a close() called between two events returns, every socket that
\* open() has made on the handle is destroyed or closed.
C17_CloseDestroysEveryConnection ==
    [][Close => \A s \in Opened : sockState'[s] \in {"destroyed", "closed"}]_vars

\* C18: the closure observer the handle stores is the callback passed to the
\* last onClose() call (the constructor's empty callback before the first call);
\* a step that changes it is an onClose() call, which changes no socket: no event
\* of a socket changes it.
C18_LastRegisteredObserver ==
    /\ [](onCloseCallback = lastRegistered)
    /\ [][onCloseCallback' # onCloseCallback =>
            /\ onCloseCallback' \in CloseCallbacks
            /\ onCloseCallback' = lastRegistered'
            /\ UNCHANGED <<sockState, sockProp, events>>]_vars

\* cb1 was registered when the socket emitted 'close'; cb2 was registered after
\* that and is the stored observer
C18_Witness ==
    /\ observerAtClose[1] = "cb1"
    /\ sockState[1] = "closed"
    /\ sockProp[1] = "false"
    /\ lastRegistered = "cb2"
    /\ onCloseCallback = "cb2"

-----------------------------------------------------------------------------
(* Properties of CoreClient *)

\* the server's reply to a command c with ok:true, and the err of its reply with
\* ok:false
OkReplyTo(c) ==
    IF c.command = "PING"
    THEN "{\"ok\":true,\"ping\":\"pong\",\"elapsed\":\"1ms\"}"
    ELSE "{\"ok\":true,\"object\":\"truck1\",\"elapsed\":\"2ms\"}"

ErrOfReplyTo(c) ==
    IF c.command = "PING" THEN "invalid number of arguments" ELSE "id not found"

\* the callback of call id got a reply with ok:true / with ok:false and an err
GotOk(id) == replies[id].error = "null" /\ replies[id].rawResult = OkReplyTo(command[id])
GotErr(id) ==
    /\ replies[id].error = "null"
    /\ replies[id] \notin {NoArrival, Arrival("null", FailText)}
    /\ ~GotOk(id)

\* C20: the promise of a call whose callback got a reply with ok:true is resolved
\* with that reply; with ok:false and an err it is rejected with that err; in both
\* cases resolve or reject has been called once.  The promise of a call whose reply
\* has not arrived is pending, whatever replies other calls have got; and a step
\* changes the promise of a call only when that call's own reply arrives, from
\* pending, and never again.
C20_SettledOnceByOwnReply ==
    /\ [](\A id \in ExecIds :
            /\ GotOk(id) =>
                  promise[id] = Resolved(OkReplyTo(command[id])) /\ settleCalls[id] = 1
            /\ GotErr(id) =>
                  promise[id] = Rejected(ErrOfReplyTo(command[id])) /\ settleCalls[id] = 1
            /\ phase[id] # "replied" => promise[id] = Pending /\ settleCalls[id] = 0
            /\ settleCalls[id] <= 1)
    /\ [][\A id \in ExecIds :
            promise'[id] # promise[id] =>
                /\ promise[id] = Pending
                /\ phase[id] = "sent"
                /\ phase'[id] = "replied"
                /\ \A other \in ExecIds \ {id} : promise'[other] = promise[other]]_vars

\* the first call was rejected with the err of its own reply, the second resolved
\* with its own reply
C20_Witness ==
    /\ command[1].command = "GET"
    /\ command[2].command = "PING"
    /\ promise[1] = Rejected("id not found")
    /\ promise[2] = Resolved("{\"ok\":true,\"ping\":\"pong\",\"elapsed\":\"1ms\"}")
    /\ forwards = [id \in ExecIds |-> 1]

\* the callback of call id got a reply of the server
GotReply(id) == phase[id] = "replied" /\ replies[id].error = "null"

\* how the promise of a call is to be settled by the reply its callback got
SettledByReply(id) ==
    IF GotOk(id) THEN Resolved(OkReplyTo(command[id]))
    ELSE IF GotErr(id) THEN Rejected(ErrOfReplyTo(command[id]))
    ELSE Rejected(rawCommandOf(command[id]) \o ": unexpected response: [object Object]")

\* C19: a call of execute made before the client is initialized is, once the
\* transport has connected and the reply to OUTPUT json has arrived, handed to the
\* transport (once), and its reply reaches its callback; when that is a reply of
\* the server, the promise of the call is settled by it.
C19_DebouncedCallCompletes ==
    /\ \A id \in ExecIds :
          debounced[id] ~> (initialized /\ forwards[id] = 1 /\ phase[id] # "debouncing")
    /\ \A id \in ExecIds : debounced[id] ~> phase[id] = "replied"
    /\ [](\A id \in ExecIds :
            (debounced[id] /\ GotReply(id)) => promise[id] = SettledByReply(id))

\* a call made before the client was initialized, retried once by its timer, then
\* sent and resolved with its reply
C19_Witness ==
    /\ debounced[1]
    /\ retries[1] = 1
    /\ forwards[1] = 1
    /\ command[1].command = "PING"
    /\ promise[1] = Resolved("{\"ok\":true,\"ping\":\"pong\",\"elapsed\":\"1ms\"}")


\* the transport reported an error for call id: error set, no reply payload
TransportError(id) ==
    /\ phase[id] = "replied"
    /\ replies[id].error # "null"
    /\ replies[id].rawResult = "undefined"

\* C21: when the transport reports an error for a command (error set, no reply
\* payload), the promise of execute is eventually rejected, and the promise of
\* executeForOK (executeForSingleField) is rejected with the message
\* "Command <verb> failed: ..." naming the command; it is not left pending.
C21_TransportErrorRejects ==
    \A id \in ExecIds :
        TransportError(id) ~>
            /\ promise[id].state = "rejected"
            /\ executeForOK(promise[id], command[id].command) =
                  Rejected("Command " \o command[id].command \o " failed: "
                              \o messageOf(promise[id].with))


\* the call of sendCommand that execute call id makes
Forwarded(id) == [call |-> id, command |-> command[id].command, args |-> command[id].args]

\* C25: a command of a caller is handed to the transport only while the client is
\* initialized: until then the only command handed over is OUTPUT json; the command
\* handed over for a call is the caller's; and each call of execute is handed over
\* at most once, however many times its debounce timer has fired.
C25_ForwardedOnceWhenInitialized ==
    /\ [](/\ \A id \in ExecIds : forwards[id] <= 1
          /\ ~initialized => \A i \in 1..Len(outbox) : outbox[i] = OutputJson
          /\ \A i \in 1..Len(outbox) :
                outbox[i].call # 0 => outbox[i] = Forwarded(outbox[i].call))
    /\ [][Len(outbox') > Len(outbox) =>
             /\ outbox' = Append(outbox, Last(outbox'))
             /\ Last(outbox') = OutputJson \/ initialized]_vars
    /\ [][\A id \in ExecIds :
             forwards'[id] # forwards[id] =>
                 /\ initialized
                 /\ forwards[id] = 0
                 /\ forwards'[id] = 1
                 /\ Last(outbox').call = id]_vars

\* a call made before the client was initialized, its timer fired twice in vain,
\* then handed to the transport, once
C25_Witness ==
    /\ debounced[1]
    /\ retries[1] = 2
    /\ forwards[1] = 1
    /\ initialized
    /\ outbox = <<Forwarded(1)>>

\* the reply to OUTPUT json is the next reply to arrive / has arrived in this step
OutputReplyDue == outbox # <<>> /\ Head(outbox) = OutputJson

\* C26: initialized is false when the client is constructed and changes only in
\* the step in which the reply to OUTPUT json arrives; after that step it is true,
\* whether the reply is a success or an error; once true it stays true, also when
\* the transport loses its connection and connects again.
C26_InitializedOnceAndForAll ==
    /\ initialized = FALSE
    /\ [][initialized' # initialized => OutputReplyDue /\ outbox' = Tail(outbox)]_vars
    /\ [][(OutputReplyDue /\ outbox' = Tail(outbox)) => initialized']_vars
    /\ [][initialized => initialized']_vars

\* the transport has connected again after the first call was answered: OUTPUT json
\* is in flight a second time and initialized is still true
C26_Witness ==
    /\ initialized
    /\ connected
    /\ OutputReplyDue
    /\ phase[1] = "replied"

====
